---- MODULE Spec2Model ----
(***************************************************************************)
(* A model of the KVV tracker gateway (src/main.cpp): the departures       *)
(* handler with its process-wide TTL cache, normalizeResponse, the track   *)
(* filter and the stop search.                                             *)
(*                                                                         *)
(* Strings are sequences of one-character strings.  A JSON value is a      *)
(* record whose field t is the JSON type and whose other field, named      *)
(* after the type, is the value; the members of a JSON object are a        *)
(* function from keys (TLA+ strings) to JSON values, so that               *)
(* "k \in DOMAIN j.o" is j.contains(k).                                    *)
(***************************************************************************)
EXTENDS Integers, Sequences, FiniteSets, TLC

(***************************************************************************)
(* Characters and strings                                                  *)
(***************************************************************************)
DigitChars == <<"0", "1", "2", "3", "4", "5", "6", "7", "8", "9">>

UpperChars == <<"A", "B", "C", "D", "E", "F", "G", "H", "I", "J", "K", "L", "M",
                "N", "O", "P", "Q", "R", "S", "T", "U", "V", "W", "X", "Y", "Z">>

LowerChars == <<"a", "b", "c", "d", "e", "f", "g", "h", "i", "j", "k", "l", "m",
                "n", "o", "p", "q", "r", "s", "t", "u", "v", "w", "x", "y", "z">>

isdigit(c) == \E i \in 1..Len(DigitChars) : DigitChars[i] = c

isspace(c) == c = " "

DigitVal(c) == (CHOOSE i \in 1..Len(DigitChars) : DigitChars[i] = c) - 1

tolower(c) ==
    IF \E i \in 1..Len(UpperChars) : UpperChars[i] = c
    THEN LowerChars[CHOOSE i \in 1..Len(UpperChars) : UpperChars[i] = c]
    ELSE c

toLower(str) == [i \in 1..Len(str) |-> tolower(str[i])]

\* std::string::substr(pos, n) with pos counted from 0
substr(s, pos, n) == SubSeq(s, pos + 1, IF pos + n > Len(s) THEN Len(s) ELSE pos + n)

\* std::string::find(needle) != npos
Contains(hay, needle) ==
    \E p \in 0..(Len(hay) - Len(needle)) : substr(hay, p, Len(needle)) = needle

INT_MAX == 2147483647

\* The digits of s from position i on (1-based): [v: their value, n: how many]
RECURSIVE DigitRun(_, _, _, _)
DigitRun(s, i, v, n) ==
    IF i <= Len(s) /\ isdigit(s[i])
    THEN DigitRun(s, i + 1, v * 10 + DigitVal(s[i]), n + 1)
    ELSE [v |-> v, n |-> n]

RECURSIVE SkipSpaces(_, _)
SkipSpaces(s, i) == IF i <= Len(s) /\ isspace(s[i]) THEN SkipSpaces(s, i + 1) ELSE i

\* std::stoi: leading white space, an optional sign, then digits up to the
\* first character that is none; std::invalid_argument without a digit,
\* std::out_of_range beyond int.  [ok: no exception, v: the result]
stoi(s) ==
    LET i == SkipSpaces(s, 1)
        neg == i <= Len(s) /\ s[i] = "-"
        j == IF i <= Len(s) /\ s[i] \in {"-", "+"} THEN i + 1 ELSE i
        run == DigitRun(s, j, 0, 0)
        val == IF neg THEN 0 - run.v ELSE run.v
    IN  IF run.n = 0 \/ val > INT_MAX \/ val < 0 - INT_MAX - 1
        THEN [ok |-> FALSE, v |-> 0]
        ELSE [ok |-> TRUE, v |-> val]

(***************************************************************************)
(* JSON values                                                             *)
(***************************************************************************)
JStr(s) == [t |-> "string", s |-> s]
JNum(n) == [t |-> "number", n |-> n]
JBool(b) == [t |-> "boolean", b |-> b]
JArr(a) == [t |-> "array", a |-> a]
JObj(o) == [t |-> "object", o |-> o]
JNull == [t |-> "null"]

\* item[k] = v on a JSON object's members
Put(item, k, v) == [x \in (DOMAIN item) \cup {k} |-> IF x = k THEN v ELSE item[x]]

\* The members of o and of p together (no key is in both)
Merge(o, p) == [x \in (DOMAIN o) \cup (DOMAIN p) |-> IF x \in DOMAIN o THEN o[x] ELSE p[x]]

\* json::contains(key): false for a value that is no object
contains(j, key) == j.t = "object" /\ key \in DOMAIN j.o

\* json::value(key, default) with a string default: the member converted to
\* std::string; type_error (ok = FALSE) when the value is no object or the
\* member is no string.
value(j, key, default) ==
    IF j.t # "object" THEN [ok |-> FALSE, v |-> default]
    ELSE IF key \notin DOMAIN j.o THEN [ok |-> TRUE, v |-> default]
    ELSE IF j.o[key].t = "string" THEN [ok |-> TRUE, v |-> j.o[key].s]
    ELSE [ok |-> FALSE, v |-> default]

(***************************************************************************)
(* String literals of the source                                           *)
(***************************************************************************)
Empty == <<>>
QuestionMark == <<"?">>
Unknown == <<"U", "n", "k", "n", "o", "w", "n">>
MinusOne == <<"-", "1">>
Zero == <<"0">>
PlanLowFloorVehicle ==
    <<"p", "l", "a", "n", "l", "o", "w", "f", "l", "o", "o", "r",
      "v", "e", "h", "i", "c", "l", "e">>
PlanWheelchairAccess ==
    <<"p", "l", "a", "n", "w", "h", "e", "e", "l", "c", "h", "a", "i", "r",
      "a", "c", "c", "e", "s", "s">>
LowFloorHints ==
    { <<"N", "i", "e", "d", "e", "r", "f", "l", "u", "r">>,
      <<"l", "o", "w", " ", "f", "l", "o", "o", "r">>,
      <<"l", "o", "w", "F", "l", "o", "o", "r">> }
WheelchairHints ==
    { <<"R", "o", "l", "l", "s", "t", "u", "h", "l">>,
      <<"w", "h", "e", "e", "l", "c", "h", "a", "i", "r">>,
      <<"b", "a", "r", "r", "i", "e", "r", "e", "f", "r", "e", "i">>,
      <<"b", "a", "r", "r", "i", "e", "r", "-", "f", "r", "e", "e">> }

(***************************************************************************)
(* normalizeResponse.  Every piece yields [ok, item]: ok = FALSE when an   *)
(* exception leaves it (std::stoi or json::value throwing), item the       *)
(* members it sets on the output record.                                   *)
(***************************************************************************)
strToBool(v) == toLower(v) \in { <<"1">>, <<"t", "r", "u", "e">>, <<"y", "e", "s">> }

\* item["line"], item["direction"] (lines 460-461)
LineFields(sl) ==
    LET number == value(sl, "number", QuestionMark)
        direction == value(sl, "direction", Unknown)
    IN  [ok |-> number.ok /\ direction.ok,
         item |-> [line |-> JStr(number.v), direction |-> JStr(direction.v)]]

\* item["mot"] (lines 464-468): std::stoi outside any try block
MotField(sl) ==
    IF contains(sl, "motType")
    THEN LET m == value(sl, "motType", MinusOne)
             n == stoi(m.v)
         IN  [ok |-> m.ok /\ n.ok, item |-> [mot |-> JNum(n.v)]]
    ELSE [ok |-> TRUE, item |-> [mot |-> JNum(-1)]]

\* item["delay_minutes"] (lines 471-478): catch (...) absorbs every failure
DelayField(sl, includeDelay) ==
    IF includeDelay /\ contains(sl, "delay")
    THEN LET d == value(sl, "delay", Zero)
             n == stoi(d.v)
         IN  [ok |-> TRUE,
              item |-> [delay_minutes |-> JNum(IF d.ok /\ n.ok THEN n.v ELSE 0)]]
    ELSE [ok |-> TRUE, item |-> <<>>]

\* The loop over dep["attrs"] (lines 487-501), from entry i on
RECURSIVE AttrsFrom(_, _, _)
AttrsFrom(attrs, i, st) ==
    IF i > Len(attrs) \/ ~st.ok THEN st
    ELSE LET name == value(attrs[i], "name", Empty)
             val == value(attrs[i], "value", Empty)
             lname == toLower(name.v)
         IN  IF ~(name.ok /\ val.ok) THEN [st EXCEPT !.ok = FALSE]
             ELSE IF lname = PlanLowFloorVehicle
             THEN AttrsFrom(attrs, i + 1,
                      [st EXCEPT !.hasPlanLowFloor = TRUE, !.planLowFloor = strToBool(val.v)])
             ELSE IF lname = PlanWheelchairAccess
             THEN AttrsFrom(attrs, i + 1,
                      [st EXCEPT !.hasPlanWheelchair = TRUE, !.planWheelchair = strToBool(val.v)])
             ELSE AttrsFrom(attrs, i + 1, st)

\* h.value("hint", h.value("content", "")) (lines 508, 554)
HintText(h) ==
    LET content == value(h, "content", Empty)
        hint == value(h, "hint", content.v)
    IN  [ok |-> content.ok /\ hint.ok, v |-> hint.v]

\* The loop over dep["servingLine"]["hints"] (lines 506-521), from entry i on
RECURSIVE LineHintsFrom(_, _, _)
LineHintsFrom(hints, i, st) ==
    IF i > Len(hints) \/ ~st.ok THEN st
    ELSE LET txt == HintText(hints[i])
         IN  IF ~txt.ok THEN [st EXCEPT !.ok = FALSE]
             ELSE LineHintsFrom(hints, i + 1,
                      [st EXCEPT
                          !.hintLowFloor = @ \/ \E n \in LowFloorHints : Contains(txt.v, n),
                          !.hintWheelchair = @ \/ \E n \in WheelchairHints : Contains(txt.v, n)])

\* train_type, train_length / train_composition (lines 529-534)
TrainFields(sl) ==
    LET type == value(sl, "trainType", Empty)
        length == value(sl, "trainLength", Empty)
        composition == value(sl, "trainComposition", Empty)
        t == IF contains(sl, "trainType")
             THEN [ok |-> type.ok, item |-> [train_type |-> JStr(type.v)]]
             ELSE [ok |-> TRUE, item |-> <<>>]
        l == IF contains(sl, "trainLength")
             THEN [ok |-> length.ok, item |-> [train_length |-> JStr(length.v)]]
             ELSE IF contains(sl, "trainComposition")
             THEN [ok |-> composition.ok, item |-> [train_composition |-> JStr(composition.v)]]
             ELSE [ok |-> TRUE, item |-> <<>>]
    IN  [ok |-> t.ok /\ l.ok, item |-> Merge(t.item, l.item)]

\* The detailed block (lines 480-535)
DetailFields(dep, sl, detailed) ==
    IF ~detailed THEN [ok |-> TRUE, item |-> <<>>]
    ELSE
    LET plan == IF contains(dep, "attrs") /\ dep.o["attrs"].t = "array"
                THEN AttrsFrom(dep.o["attrs"].a, 1,
                         [ok |-> TRUE, hasPlanLowFloor |-> FALSE, planLowFloor |-> FALSE,
                          hasPlanWheelchair |-> FALSE, planWheelchair |-> FALSE])
                ELSE [ok |-> TRUE, hasPlanLowFloor |-> FALSE, planLowFloor |-> FALSE,
                      hasPlanWheelchair |-> FALSE, planWheelchair |-> FALSE]
        hint == IF contains(sl, "hints") /\ sl.o["hints"].t = "array"
                THEN LineHintsFrom(sl.o["hints"].a, 1,
                         [ok |-> TRUE, hintLowFloor |-> FALSE, hintWheelchair |-> FALSE])
                ELSE [ok |-> TRUE, hintLowFloor |-> FALSE, hintWheelchair |-> FALSE]
        lowFloor == IF plan.hasPlanLowFloor THEN plan.planLowFloor ELSE hint.hintLowFloor
        wheelchair == IF plan.hasPlanWheelchair THEN plan.planWheelchair ELSE hint.hintWheelchair
        train == TrainFields(sl)
    IN  [ok |-> plan.ok /\ hint.ok /\ train.ok,
         item |-> Merge([low_floor |-> JBool(lowFloor),
                         wheelchair_accessible |-> JBool(wheelchair \/ lowFloor)],
                        train.item)]

\* if (dep.contains("servingLine")) { ... } (lines 459-536): no else branch
ServingLineFields(dep, detailed, includeDelay) ==
    IF ~contains(dep, "servingLine") THEN [ok |-> TRUE, item |-> <<>>]
    ELSE LET sl == dep.o["servingLine"]
             line == LineFields(sl)
             mot == MotField(sl)
             delay == DelayField(sl, includeDelay)
             detail == DetailFields(dep, sl, detailed)
         IN  [ok |-> line.ok /\ mot.ok /\ delay.ok /\ detail.ok,
              item |-> Merge(Merge(line.item, mot.item), Merge(delay.item, detail.item))]

\* item["platform"] (lines 539-541)
PlatformField(dep) ==
    IF contains(dep, "platform")
    THEN LET p == value(dep, "platform", Empty)
         IN  [ok |-> p.ok, item |-> [platform |-> JStr(p.v)]]
    ELSE IF contains(dep, "platformName")
    THEN LET p == value(dep, "platformName", Empty)
         IN  [ok |-> p.ok, item |-> [platform |-> JStr(p.v)]]
    ELSE [ok |-> TRUE, item |-> [platform |-> JStr(Unknown)]]

\* item["minutes_remaining"] (lines 544-545): std::stoi outside any try block
CountdownField(dep) ==
    IF contains(dep, "countdown")
    THEN LET c == value(dep, "countdown", Zero)
             n == stoi(c.v)
         IN  [ok |-> c.ok /\ n.ok, item |-> [minutes_remaining |-> JNum(n.v)]]
    ELSE [ok |-> TRUE, item |-> [minutes_remaining |-> JNum(0)]]

\* item["is_realtime"] (line 548)
RealtimeField(dep) == [ok |-> TRUE, item |-> [is_realtime |-> JBool(contains(dep, "realDateTime"))]]

\* The loop over dep["hints"] (lines 553-556), from entry i on
RECURSIVE DepHintsFrom(_, _, _)
DepHintsFrom(hints, i, st) ==
    IF i > Len(hints) \/ ~st.ok THEN st
    ELSE LET txt == HintText(hints[i])
         IN  IF ~txt.ok THEN [st EXCEPT !.ok = FALSE]
             ELSE DepHintsFrom(hints, i + 1,
                      IF txt.v # Empty
                      THEN [st EXCEPT !.hintsArray = Append(@, JStr(txt.v))]
                      ELSE st)

\* item["hints"] (lines 551-558)
HintsField(dep, detailed) ==
    IF detailed /\ contains(dep, "hints") /\ dep.o["hints"].t = "array"
    THEN LET st == DepHintsFrom(dep.o["hints"].a, 1, [ok |-> TRUE, hintsArray |-> <<>>])
         IN  [ok |-> st.ok,
              item |-> IF st.hintsArray # <<>> THEN [hints |-> JArr(st.hintsArray)] ELSE <<>>]
    ELSE [ok |-> TRUE, item |-> <<>>]

\* One pass of the loop body (lines 456-560): the record pushed for dep
NormalizeItem(dep, detailed, includeDelay) ==
    LET line == ServingLineFields(dep, detailed, includeDelay)
        platform == PlatformField(dep)
        countdown == CountdownField(dep)
        realtime == RealtimeField(dep)
        hints == HintsField(dep, detailed)
    IN  [ok |-> line.ok /\ platform.ok /\ countdown.ok /\ realtime.ok /\ hints.ok,
         item |-> JObj(Merge(Merge(line.item, platform.item),
                             Merge(Merge(countdown.item, realtime.item), hints.item)))]

\* What "for (const auto& dep : ProviderData["departureList"])" visits: the
\* elements of an array, nothing for null, the value itself for a primitive
\* (an object, whose members it would visit, is not among the boards here)
Elements(j) ==
    IF j.t = "array" THEN j.a
    ELSE IF j.t = "null" THEN <<>>
    ELSE <<j>>

\* The loop of lines 455-561 from entry i on, result being the records so far
RECURSIVE NormalizeFrom(_, _, _, _, _)
NormalizeFrom(list, i, detailed, includeDelay, result) ==
    IF i > Len(list) THEN [ok |-> TRUE, result |-> JArr(result)]
    ELSE LET item == NormalizeItem(list[i], detailed, includeDelay)
         IN  IF ~item.ok THEN [ok |-> FALSE, result |-> JArr(<<>>)]
             ELSE NormalizeFrom(list, i + 1, detailed, includeDelay, Append(result, item.item))

\* normalizeResponse (lines 444-564): [ok: it returned, result: the array]
normalizeResponse(ProviderData, detailed, includeDelay) ==
    IF ~contains(ProviderData, "departureList") THEN [ok |-> TRUE, result |-> JArr(<<>>)]
    ELSE NormalizeFrom(Elements(ProviderData.o["departureList"]), 1, detailed, includeDelay, <<>>)

(***************************************************************************)
(* The track filter of the departures route (lines 634-656)                *)
(***************************************************************************)
Space == <<" ">>
Gleis == <<"G", "l", "e", "i", "s", " ">>

\* A mutant of TrackMatch: the prefix test lets a digit follow the token
TrackMatchAnyNext(platform, reqTrackStr) ==
    IF platform = reqTrackStr THEN TRUE
    ELSE IF Len(platform) > Len(reqTrackStr)
            /\ substr(platform, 0, Len(reqTrackStr)) = reqTrackStr
    THEN TRUE
    ELSE Contains(platform, Space \o reqTrackStr) \/ Contains(platform, Gleis \o reqTrackStr)

\* bool match of lines 641-651: an if / else-if chain, so the third test is
\* made only when the platform does not start with the token
TrackMatch(platform, reqTrackStr) ==
    IF platform = reqTrackStr THEN TRUE
    ELSE IF Len(platform) > Len(reqTrackStr)
            /\ substr(platform, 0, Len(reqTrackStr)) = reqTrackStr
    THEN ~isdigit(platform[Len(reqTrackStr) + 1])
    ELSE Contains(platform, Space \o reqTrackStr) \/ Contains(platform, Gleis \o reqTrackStr)

\* The loop of lines 639-654 from record i on
RECURSIVE FilterFrom(_, _, _, _)
FilterFrom(list, i, reqTrackStr, filteredDepartures) ==
    IF i > Len(list) THEN filteredDepartures
    ELSE FilterFrom(list, i + 1, reqTrackStr,
             IF TrackMatch(value(list[i], "platform", Empty).v, reqTrackStr)
             THEN Append(filteredDepartures, list[i])
             ELSE filteredDepartures)

\* The body the route answers with (lines 634-658); NoParam: no track given
NoParam == [t |-> "none"]

TrackFiltered(allDepartures, requestedTrack) ==
    IF requestedTrack # NoParam
    THEN JArr(FilterFrom(allDepartures.a, 1, requestedTrack.s, <<>>))
    ELSE allDepartures

(***************************************************************************)
(* The upstream provider.  A reply is [status_code, wellFormed, json]: the *)
(* body r.text is given by whether json::parse accepts it and, if so, the  *)
(* document it parses to.                                                  *)
(***************************************************************************)
UpstreamErrorMsg == <<"U", "p", "s", "t", "r", "e", "a", "m", " ", "E", "r", "r", "o", "r">>
InvalidJsonSearchMsg ==
    <<"I", "n", "v", "a", "l", "i", "d", " ", "J", "S", "O", "N", " ", "f", "r", "o", "m", " ",
      "P", "r", "o", "v", "i", "d", "e", "r", " ", "S", "e", "a", "r", "c", "h">>
UpstreamProviderErrorMsg ==
    <<"U", "p", "s", "t", "r", "e", "a", "m", " ", "P", "r", "o", "v", "i", "d", "e", "r", " ",
      "e", "r", "r", "o", "r">>
InvalidJsonProviderMsg ==
    <<"I", "n", "v", "a", "l", "i", "d", " ", "J", "S", "O", "N", " ", "f", "r", "o", "m", " ",
      "P", "r", "o", "v", "i", "d", "e", "r">>
MissingQMsg ==
    <<"M", "i", "s", "s", "i", "n", "g", " ", "'", "q", "'", " ",
      "p", "a", "r", "a", "m", "e", "t", "e", "r">>

HTTP_OK == 200

\* searchStopsProvider (lines 393-417); city and includeLocation are unused
searchStopsProvider(query, reply) ==
    IF query = Empty THEN JArr(<<>>)
    ELSE IF reply.status_code # HTTP_OK THEN JObj([error |-> JStr(UpstreamErrorMsg)])
    ELSE IF ~reply.wellFormed THEN JObj([error |-> JStr(InvalidJsonSearchMsg)])
    ELSE reply.json

\* fetchDeparturesProvider (lines 420-441)
fetchDeparturesProvider(reply) ==
    IF reply.status_code # HTTP_OK
    THEN JObj([error |-> JStr(UpstreamProviderErrorMsg), code |-> JNum(reply.status_code)])
    ELSE IF ~reply.wellFormed THEN JObj([error |-> JStr(InvalidJsonProviderMsg)])
    ELSE reply.json

(***************************************************************************)
(* Persisting the stops of a search result (lines 111-389).  The table is  *)
(* kept as the set of stop_id values upserted.                             *)
(***************************************************************************)
\* std::to_string of a non-negative integer
RECURSIVE to_string(_)
to_string(n) ==
    IF n < 10 THEN <<DigitChars[n + 1]>>
    ELSE to_string(n \div 10) \o <<DigitChars[(n % 10) + 1]>>

\* jsonToString (lines 111-120); numbers of the model are integers
jsonToString(val) ==
    IF val.t = "string" THEN [ok |-> TRUE, v |-> val.s]
    ELSE IF val.t = "number"
    THEN [ok |-> TRUE, v |-> IF val.n < 0 THEN <<"-">> \o to_string(0 - val.n) ELSE to_string(val.n)]
    ELSE [ok |-> FALSE, v |-> Empty]

\* Whether std::stod accepts s: white space, a sign, then digits or a point
\* followed by a digit
stodAccepts(s) ==
    LET i == SkipSpaces(s, 1)
        j == IF i <= Len(s) /\ s[i] \in {"-", "+"} THEN i + 1 ELSE i
    IN  \/ j <= Len(s) /\ isdigit(s[j])
        \/ j + 1 <= Len(s) /\ s[j] = "." /\ isdigit(s[j + 1])

\* Whether jsonToDouble (lines 122-132) yields a value
jsonToDouble(val) ==
    \/ val.t = "number"
    \/ val.t = "string" /\ stodAccepts(val.s)

\* getJsonString (lines 134-142), from key i of keys on
RECURSIVE getJsonString(_, _, _)
getJsonString(obj, keys, i) ==
    IF i > Len(keys) THEN [ok |-> FALSE, v |-> Empty]
    ELSE LET val == IF contains(obj, keys[i]) THEN jsonToString(obj.o[keys[i]])
                    ELSE [ok |-> FALSE, v |-> Empty]
         IN  IF val.ok /\ val.v # Empty THEN val ELSE getJsonString(obj, keys, i + 1)

\* The lambda extractFromObject (lines 212-242)
extractFromObject(coord) ==
    \/ contains(coord, "x") /\ contains(coord, "y")
       /\ jsonToDouble(coord.o["x"]) /\ jsonToDouble(coord.o["y"])
    \/ contains(coord, "lon") /\ contains(coord, "lat")
       /\ jsonToDouble(coord.o["lon"]) /\ jsonToDouble(coord.o["lat"])
    \/ contains(coord, "longitude") /\ contains(coord, "latitude")
       /\ jsonToDouble(coord.o["longitude"]) /\ jsonToDouble(coord.o["latitude"])

\* Whether extractCoordinates (lines 211-271) finds a pair
extractCoordinates(stop) ==
    \/ contains(stop, "coord")
       /\ LET coord == stop.o["coord"]
          IN  \/ coord.t = "object" /\ extractFromObject(coord)
              \/ coord.t = "array" /\ Len(coord.a) >= 2
                 /\ jsonToDouble(coord.a[1]) /\ jsonToDouble(coord.a[2])
    \/ extractFromObject(stop)

\* parseStopRecord (lines 282-303): [ok, stop_id]
parseStopRecord(stop) ==
    LET stopId == getJsonString(stop, <<"id", "stopId", "stopID", "gid">>, 1)
        stopName == getJsonString(stop, <<"name", "stopName", "stop_name">>, 1)
    IN  [ok |-> stopId.ok /\ stopName.ok /\ extractCoordinates(stop), stop_id |-> stopId.v]

\* The array extractStopRecords reads (lines 306-329): [found, list]
StopArray(searchResult) ==
    LET finder == IF contains(searchResult, "stopFinder")
                  THEN searchResult.o["stopFinder"] ELSE JNull
        none == [found |-> FALSE, list |-> <<>>]
        inFinder ==
            IF contains(finder, "points") /\ finder.o["points"].t = "array"
            THEN [found |-> TRUE, list |-> finder.o["points"].a]
            ELSE IF contains(finder, "locations") /\ finder.o["locations"].t = "array"
            THEN [found |-> TRUE, list |-> finder.o["locations"].a]
            ELSE IF contains(finder, "points") /\ contains(finder.o["points"], "point")
                    /\ finder.o["points"].o["point"].t = "array"
            THEN [found |-> TRUE, list |-> finder.o["points"].o["point"].a]
            ELSE none
    IN  IF searchResult.t = "array" THEN [found |-> TRUE, list |-> searchResult.a]
        ELSE IF searchResult.t # "object" THEN none
        ELSE IF inFinder.found THEN inFinder
        ELSE IF contains(searchResult, "locations") /\ searchResult.o["locations"].t = "array"
        THEN [found |-> TRUE, list |-> searchResult.o["locations"].a]
        ELSE IF contains(searchResult, "points") /\ searchResult.o["points"].t = "array"
        THEN [found |-> TRUE, list |-> searchResult.o["points"].a]
        ELSE none

\* extractStopRecords (lines 305-341): the stop_id values of the records
extractStopRecords(searchResult) ==
    LET list == StopArray(searchResult).list
    IN  { parseStopRecord(list[i]).stop_id :
            i \in { j \in 1..Len(list) : list[j].t = "object" /\ parseStopRecord(list[j]).ok } }

\* ensureStopsInDatabase (lines 343-389): the table afterwards; connected is
\* whether PQstatus reports CONNECTION_OK
ensureStopsInDatabase(searchResult, config, connected, table) ==
    IF ~config THEN table
    ELSE IF extractStopRecords(searchResult) = {} THEN table
    ELSE IF ~connected THEN table
    ELSE table \cup extractStopRecords(searchResult)

(***************************************************************************)
(* State                                                                   *)
(***************************************************************************)
VARIABLES
    stop_cache,      \* std::map<std::string, CacheEntry>: key -> [data, timestamp]
    cache_mutex,     \* 0 when free, else the handler that holds it
    clock,           \* std::chrono::steady_clock, in ticks
    pc,              \* where each handler of the departures route stands
    stopId,          \* per handler: the <string> of the route
    detailed,        \* per handler: bool detailed
    includeDelay,    \* per handler: bool includeDelay
    cacheKey,        \* per handler: std::string cacheKey
    cacheHit,        \* per handler: bool cacheHit
    allDepartures,   \* per handler: json allDepartures
    rawData,         \* per handler: json rawData
    entry,           \* per handler: the CacheEntry built on line 631
    response,        \* per handler: the crow::response of its last request
    fetches,         \* per handler: upstream calls made for its request
    requests,        \* departures requests accepted so far
    written,         \* every CacheEntry built on line 631, in the order of the stores
    normCall,        \* a call of normalizeResponse: its arguments
    normResult,      \* ... and how it ended
    filterCall,      \* a pass of the track filter: the list and the track
    filterResult,    \* ... and the body answered
    db_config,       \* whether std::optional<DbConfig> db_config holds a value
    stops_table,     \* the stop_id values of the table stops
    searchCall,      \* a search request: q and the upstream reply
    searchResponse,  \* ... and the crow::response
    flagCall,        \* the boolean query parameters of a request, as sent
    flagResult       \* ... and what the routes read from them

cacheVars == <<stop_cache, cache_mutex, clock, pc, stopId, detailed, includeDelay, cacheKey,
               cacheHit, allDepartures, rawData, entry, response, fetches, requests, written>>
normVars == <<normCall, normResult>>
filterVars == <<filterCall, filterResult>>
searchVars == <<db_config, stops_table, searchCall, searchResponse>>
flagVars == <<flagCall, flagResult>>
vars == <<cacheVars, normVars, filterVars, searchVars, flagVars>>

(***************************************************************************)
(* Bounds                                                                  *)
(***************************************************************************)
NumHandlers == 2         \* worker threads serving the departures route
MaxRequests == 2         \* departures requests in one behaviour
TicksPerSecond == 2      \* resolution of the clock
MaxEntries == 2          \* entries of a departure list given to normalizeResponse
MaxPlatformChunks == 4   \* pieces a platform string is built from
MaxTrackChunks == 2      \* pieces a track token is built from
MaxCandidates == 2       \* stops in an upstream search reply
MaxQuality == 2          \* largest matchQuality upstream gives

Absent == [t |-> "absent"]

\* obj with member k set to val, unless val is Absent
With(obj, k, val) == IF val = Absent THEN obj ELSE Put(obj, k, val)

\* All sequences over S of length at most n
RECURSIVE SeqsUpTo(_, _)
SeqsUpTo(S, n) ==
    IF n = 0 THEN {<<>>}
    ELSE LET shorter == SeqsUpTo(S, n - 1)
         IN  shorter \cup {Append(s, x) : s \in shorter, x \in S}

(***************************************************************************)
(* normalizeResponse on its own: SpecNorm                                  *)
(***************************************************************************)
\* A field the provider sends as a string in one deployment and as a number
\* or boolean in another
LooseValues == {JStr(<<"1", "2">>), JStr(<<"x">>), JNum(12), JBool(TRUE)}

BaseLine == [number |-> JStr(<<"S", "1">>), direction |-> JStr(<<"C", "i", "t", "y">>)]

LineEntry(members) ==
    JObj([servingLine |-> JObj(members), platform |-> JStr(<<"3">>), countdown |-> JStr(<<"5">>)])

EntriesWithLine ==
    {LineEntry(With(BaseLine, "motType", m)) : m \in LooseValues \cup {Absent}}
    \cup {LineEntry(With(BaseLine, "delay", d)) : d \in LooseValues}
    \cup {LineEntry(<<>>)}

EntriesWithoutLine ==
    {JObj(With(With(With(<<>>, "countdown", c), "platform", p), "platformName", n)) :
        c \in LooseValues \cup {Absent},
        p \in {Absent, JStr(<<"3">>)},
        n \in {Absent, JStr(<<"4">>)}}

EntriesDetailed ==
    { JObj([servingLine |->
                JObj([number |-> JStr(<<"2">>),
                      hints |-> JArr(<<JObj([content |-> JStr(<<"R", "o", "l", "l", "s", "t", "u", "h", "l">>)])>>),
                      trainType |-> JStr(<<"T">>),
                      trainComposition |-> JStr(<<"C">>)]),
            realDateTime |-> JObj(<<>>),
            hints |-> JArr(<<JObj([hint |-> JStr(<<"h">>)]), JObj([content |-> JStr(Empty)])>>)]),
      JObj([servingLine |-> JObj(BaseLine),
            attrs |-> JArr(<<JObj([name |-> JStr(<<"P", "l", "a", "n", "L", "o", "w", "F", "l", "o", "o", "r",
                                                  "V", "e", "h", "i", "c", "l", "e">>),
                                   value |-> JStr(<<"Y", "e", "s">>)])>>)]) }

Entries == EntriesWithLine \cup EntriesWithoutLine \cup EntriesDetailed

Boards ==
    {JObj([departureList |-> JArr(list)]) : list \in SeqsUpTo(Entries, MaxEntries)}
    \cup {JObj(<<>>), JObj([departureList |-> JNull]), JArr(<<>>)}

NoCall == [state |-> "none"]

NormIdle == normCall = NoCall /\ normResult = NoCall
FilterIdle == filterCall = NoCall /\ filterResult = NoCall
SearchIdle ==
    db_config = FALSE /\ stops_table = {} /\ searchCall = NoCall /\ searchResponse = NoCall
FlagIdle == flagCall = NoCall /\ flagResult = NoCall

InitNormCall ==
    /\ normCall \in [ProviderData : Boards, detailed : BOOLEAN, includeDelay : BOOLEAN]
    /\ normResult = [state |-> "pending"]

\* The call runs: it returns the array or an exception leaves it
NormalizeCall ==
    /\ normResult = [state |-> "pending"]
    /\ LET r == normalizeResponse(normCall.ProviderData, normCall.detailed, normCall.includeDelay)
       IN  normResult' = IF r.ok THEN [state |-> "returned", result |-> r.result]
                         ELSE [state |-> "threw"]
    /\ UNCHANGED <<normCall, cacheVars, filterVars, searchVars, flagVars>>

(***************************************************************************)
(* The departures route (lines 599-659), one process per worker thread     *)
(***************************************************************************)
CACHE_TTL_SECONDS == 30

Handlers == 1..NumHandlers

TTLTicks == CACHE_TTL_SECONDS * TicksPerSecond
MaxClock == TTLTicks

\* The amounts of time that pass in one step: the TTL, or a tick less
ClockSteps == {TTLTicks - 1, TTLTicks}

SfxDetailed == <<"_", "d", "e", "t", "a", "i", "l", "e", "d">>
SfxDelay == <<"_", "d", "e", "l", "a", "y">>
StrTrue == <<"t", "r", "u", "e">>
StrOne == <<"1">>

Stop42 == <<"4", "2">>
StopIds == {Stop42, Stop42 \o SfxDetailed}

\* What req.url_params.get gives for a boolean parameter
ParamValues ==
    {NoParam, JStr(StrTrue), JStr(StrOne), JStr(<<"0">>), JStr(<<"T", "R", "U", "E">>),
     JStr(<<"y", "e", "s">>)}

\* What it gives for track
TrackParams == {NoParam, JStr(StrOne)}

\* (param && (std::string(param) == "true" || std::string(param) == "1")),
\* lines 583, 604, 605
ParamIsTrue(param) == param # NoParam /\ (param.s = StrTrue \/ param.s = StrOne)

\* A mutant of CacheKeyOf: the key as it was before the delay flag joined it
CacheKeyWithoutDelay(id, det, delay) == id \o (IF det THEN SfxDetailed ELSE Empty)

\* std::string cacheKey (line 610)
CacheKeyOf(id, det, delay) ==
    id \o (IF det THEN SfxDetailed ELSE Empty) \o (IF delay THEN SfxDelay ELSE Empty)

\* duration_cast<std::chrono::seconds>(d).count() of a duration of d ticks
Seconds(d) == d \div TicksPerSecond

\* A mutant of Fresh: an entry exactly TTL seconds old still counts
FreshInclusive(e, now) == Seconds(now - e.timestamp) <= CACHE_TTL_SECONDS

\* The test of line 617 on the entry found
Fresh(e, now) == Seconds(now - e.timestamp) < CACHE_TTL_SECONDS

\* A mutant of HasError: the error object of the provider goes unnoticed
HasErrorNever(raw) == FALSE

\* rawData.contains("error") (line 626)
HasError(raw) == contains(raw, "error")

\* The boards the provider may answer with for a stop: the line depends on
\* the stop, every entry has a delay
BoardEntry(id, platform, countdown) ==
    JObj([servingLine |-> JObj([number |-> JStr(IF id = Stop42 THEN <<"S", "1">> ELSE <<"S", "2">>),
                                direction |-> JStr(<<"C", "i", "t", "y">>),
                                motType |-> JStr(<<"4">>),
                                delay |-> JStr(<<"2">>)]),
          platform |-> JStr(platform),
          countdown |-> JStr(countdown)])

DepartureBoards(id) ==
    { JObj([departureList |-> JArr(<<BoardEntry(id, <<"1">>, <<"5">>),
                                     BoardEntry(id, <<"1", "0">>, <<"7">>)>>)]),
      JObj([departureList |-> JArr(<<BoardEntry(id, Gleis \o <<"1">>, <<"0">>)>>)]),
      JObj([departureList |-> JArr(<<BoardEntry(id, <<"1">>, <<"x">>)>>)]) }

HTTP_UNAVAILABLE == 503
HTTP_BAD_GATEWAY == 502
HTTP_INTERNAL_ERROR == 500

DepartureReplies(id) ==
    {[status_code |-> HTTP_OK, wellFormed |-> TRUE, json |-> b] : b \in DepartureBoards(id)}
    \cup {[status_code |-> HTTP_OK, wellFormed |-> FALSE, json |-> JNull],
          [status_code |-> HTTP_UNAVAILABLE, wellFormed |-> FALSE, json |-> JNull]}

NoResponse == [code |-> 0, body |-> JNull]
NoEntry == [data |-> JNull, timestamp |-> 0]

CacheInit ==
    /\ stop_cache = <<>>
    /\ cache_mutex = 0
    /\ clock = 0
    /\ pc = [h \in Handlers |-> "idle"]
    /\ stopId = [h \in Handlers |-> Empty]
    /\ detailed = [h \in Handlers |-> FALSE]
    /\ includeDelay = [h \in Handlers |-> FALSE]
    /\ cacheKey = [h \in Handlers |-> Empty]
    /\ cacheHit = [h \in Handlers |-> FALSE]
    /\ allDepartures = [h \in Handlers |-> JNull]
    /\ rawData = [h \in Handlers |-> JNull]
    /\ entry = [h \in Handlers |-> NoEntry]
    /\ response = [h \in Handlers |-> NoResponse]
    /\ fetches = [h \in Handlers |-> 0]
    /\ requests = 0
    /\ written = <<>>

\* A mutant of lock: the handler goes on without waiting for the mutex
lockWithoutWaiting(h) == cache_mutex' = h

\* std::lock_guard<std::mutex> lock(cache_mutex) (lines 613, 630)
lock(h) == cache_mutex = 0 /\ cache_mutex' = h

\* A mutant of unlock: the lock_guard lives on to the end of the handler
unlockLate(h) == UNCHANGED cache_mutex

\* The end of the lock_guard's scope (lines 622, 632)
unlock(h) == cache_mutex' = 0

\* A request arrives at an idle worker (lines 600-610)
Start(h) ==
    /\ pc[h] = "idle"
    /\ requests < MaxRequests
    /\ \E id \in StopIds, detailedParam \in ParamValues, delayParam \in ParamValues :
          /\ stopId' = [stopId EXCEPT ![h] = id]
          /\ detailed' = [detailed EXCEPT ![h] = ParamIsTrue(detailedParam)]
          /\ includeDelay' = [includeDelay EXCEPT ![h] = ParamIsTrue(delayParam)]
          /\ cacheKey' = [cacheKey EXCEPT ![h] =
                 CacheKeyOf(id, ParamIsTrue(detailedParam), ParamIsTrue(delayParam))]
    /\ requests' = requests + 1
    /\ pc' = [pc EXCEPT ![h] = "lock_lookup"]
    /\ UNCHANGED <<stop_cache, cache_mutex, clock, cacheHit, allDepartures, rawData, entry,
                   response, fetches, written>>
    /\ UNCHANGED <<normVars, filterVars, searchVars, flagVars>>

\* Line 613
LockForLookup(h) ==
    /\ pc[h] = "lock_lookup"
    /\ lock(h)
    /\ pc' = [pc EXCEPT ![h] = "lookup"]
    /\ UNCHANGED <<stop_cache, clock, stopId, detailed, includeDelay, cacheKey, cacheHit,
                   allDepartures, rawData, entry, response, fetches, requests, written>>
    /\ UNCHANGED <<normVars, filterVars, searchVars, flagVars>>

\* Lines 614-622: the lookup, and the lock released
Lookup(h) ==
    /\ pc[h] = "lookup"
    /\ LET hit == cacheKey[h] \in DOMAIN stop_cache /\ Fresh(stop_cache[cacheKey[h]], clock)
       IN  /\ cacheHit' = [cacheHit EXCEPT ![h] = hit]
           /\ allDepartures' = [allDepartures EXCEPT ![h] =
                  IF hit THEN stop_cache[cacheKey[h]].data ELSE @]
           /\ pc' = [pc EXCEPT ![h] = IF hit THEN "respond" ELSE "fetch"]
    /\ unlock(h)
    /\ UNCHANGED <<stop_cache, clock, stopId, detailed, includeDelay, cacheKey,
                   rawData, entry, response, fetches, requests, written>>
    /\ UNCHANGED <<normVars, filterVars, searchVars, flagVars>>

\* Lines 625-626: the upstream call ends; an error object ends the request
Fetch(h) ==
    /\ pc[h] = "fetch"
    /\ \E reply \in DepartureReplies(stopId[h]) :
          LET raw == fetchDeparturesProvider(reply)
          IN  /\ rawData' = [rawData EXCEPT ![h] = raw]
              /\ IF HasError(raw)
                 THEN /\ response' = [response EXCEPT ![h] = [code |-> HTTP_BAD_GATEWAY, body |-> raw]]
                      /\ pc' = [pc EXCEPT ![h] = "responded"]
                 ELSE /\ pc' = [pc EXCEPT ![h] = "normalize"]
                      /\ UNCHANGED response
    /\ UNCHANGED <<stopId, detailed, includeDelay, cacheKey, cacheHit, allDepartures, entry>>
    /\ fetches' = [fetches EXCEPT ![h] = @ + 1]
    /\ UNCHANGED <<stop_cache, cache_mutex, clock, requests, written>>
    /\ UNCHANGED <<normVars, filterVars, searchVars, flagVars>>

\* Line 628; an exception leaving normalizeResponse leaves the handler too,
\* and the framework answers 500
NormalizeBoard(h) ==
    /\ pc[h] = "normalize"
    /\ LET r == normalizeResponse(rawData[h], detailed[h], includeDelay[h])
       IN  IF r.ok
           THEN /\ allDepartures' = [allDepartures EXCEPT ![h] = r.result]
                /\ pc' = [pc EXCEPT ![h] = "lock_store"]
                /\ UNCHANGED response
           ELSE /\ response' = [response EXCEPT ![h] = [code |-> HTTP_INTERNAL_ERROR, body |-> JNull]]
                /\ pc' = [pc EXCEPT ![h] = "responded"]
                /\ UNCHANGED allDepartures
    /\ UNCHANGED <<stopId, detailed, includeDelay, cacheKey, cacheHit, rawData, entry>>
    /\ UNCHANGED <<stop_cache, cache_mutex, clock, fetches, requests, written>>
    /\ UNCHANGED <<normVars, filterVars, searchVars, flagVars>>

\* Line 630
LockForStore(h) ==
    /\ pc[h] = "lock_store"
    /\ lock(h)
    /\ pc' = [pc EXCEPT ![h] = "store_data"]
    /\ UNCHANGED <<stop_cache, clock, stopId, detailed, includeDelay, cacheKey, cacheHit,
                   allDepartures, rawData, entry, response, fetches, requests, written>>
    /\ UNCHANGED <<normVars, filterVars, searchVars, flagVars>>

\* A mutant of StoreData: the list is filtered for track "1" before it is
\* stored
StoreDataFiltered(h) ==
    /\ pc[h] = "store_data"
    /\ LET built == [data |-> TrackFiltered(allDepartures[h], JStr(StrOne)), timestamp |-> clock]
           old == IF cacheKey[h] \in DOMAIN stop_cache THEN stop_cache[cacheKey[h]] ELSE NoEntry
       IN  /\ entry' = [entry EXCEPT ![h] = built]
           /\ stop_cache' = Put(stop_cache, cacheKey[h], [old EXCEPT !.data = built.data])
           /\ written' = Append(written, [key |-> cacheKey[h], data |-> built.data,
                                          timestamp |-> built.timestamp])
    /\ pc' = [pc EXCEPT ![h] = "store_timestamp"]
    /\ UNCHANGED <<cache_mutex, clock, stopId, detailed, includeDelay, cacheKey, cacheHit,
                   allDepartures, rawData, response, fetches, requests>>
    /\ UNCHANGED <<normVars, filterVars, searchVars, flagVars>>

\* Line 631, first half: the CacheEntry {allDepartures, now()} is built,
\* operator[] finds the entry or inserts a default one, and data is assigned
StoreData(h) ==
    /\ pc[h] = "store_data"
    /\ LET built == [data |-> allDepartures[h], timestamp |-> clock]
           old == IF cacheKey[h] \in DOMAIN stop_cache THEN stop_cache[cacheKey[h]] ELSE NoEntry
       IN  /\ entry' = [entry EXCEPT ![h] = built]
           /\ stop_cache' = Put(stop_cache, cacheKey[h], [old EXCEPT !.data = built.data])
           /\ written' = Append(written, [key |-> cacheKey[h], data |-> built.data,
                                          timestamp |-> built.timestamp])
    /\ pc' = [pc EXCEPT ![h] = "store_timestamp"]
    /\ UNCHANGED <<cache_mutex, clock, stopId, detailed, includeDelay, cacheKey, cacheHit,
                   allDepartures, rawData, response, fetches, requests>>
    /\ UNCHANGED <<normVars, filterVars, searchVars, flagVars>>

\* Line 631, second half, and line 632: timestamp is assigned, the lock released
StoreTimestamp(h) ==
    /\ pc[h] = "store_timestamp"
    /\ stop_cache' = [stop_cache EXCEPT ![cacheKey[h]].timestamp = entry[h].timestamp]
    /\ unlock(h)
    /\ pc' = [pc EXCEPT ![h] = "respond"]
    /\ UNCHANGED <<clock, stopId, detailed, includeDelay, cacheKey, cacheHit,
                   allDepartures, rawData, entry, response, fetches, requests, written>>
    /\ UNCHANGED <<normVars, filterVars, searchVars, flagVars>>

\* Lines 634-658: the track filter on the handler's copy, and the answer
Respond(h) ==
    /\ pc[h] = "respond"
    /\ \E requestedTrack \in TrackParams :
          response' = [response EXCEPT ![h] =
              [code |-> HTTP_OK, body |-> TrackFiltered(allDepartures[h], requestedTrack)]]
    /\ pc' = [pc EXCEPT ![h] = "responded"]
    /\ UNCHANGED <<stopId, detailed, includeDelay, cacheKey, cacheHit, allDepartures,
                   rawData, entry>>
    /\ UNCHANGED <<stop_cache, cache_mutex, clock, fetches, requests, written>>
    /\ UNCHANGED <<normVars, filterVars, searchVars, flagVars>>

\* The response is on the wire, the handler's locals are gone and the worker
\* is free again
Sent(h) ==
    /\ pc[h] = "responded"
    /\ pc' = [pc EXCEPT ![h] = "idle"]
    /\ response' = [response EXCEPT ![h] = NoResponse]
    /\ fetches' = [fetches EXCEPT ![h] = 0]
    /\ stopId' = [stopId EXCEPT ![h] = Empty]
    /\ detailed' = [detailed EXCEPT ![h] = FALSE]
    /\ includeDelay' = [includeDelay EXCEPT ![h] = FALSE]
    /\ cacheKey' = [cacheKey EXCEPT ![h] = Empty]
    /\ cacheHit' = [cacheHit EXCEPT ![h] = FALSE]
    /\ allDepartures' = [allDepartures EXCEPT ![h] = JNull]
    /\ rawData' = [rawData EXCEPT ![h] = JNull]
    /\ entry' = [entry EXCEPT ![h] = NoEntry]
    /\ UNCHANGED <<stop_cache, cache_mutex, clock, requests, written>>
    /\ UNCHANGED <<normVars, filterVars, searchVars, flagVars>>

\* Time passes
Tick ==
    /\ \E d \in ClockSteps : clock + d <= MaxClock /\ clock' = clock + d
    /\ UNCHANGED <<stop_cache, cache_mutex, pc, stopId, detailed, includeDelay, cacheKey,
                   cacheHit, allDepartures, rawData, entry, response, fetches, requests, written>>
    /\ UNCHANGED <<normVars, filterVars, searchVars, flagVars>>

Init == CacheInit /\ NormIdle /\ FilterIdle /\ SearchIdle /\ FlagIdle

Next ==
    \/ \E h \in Handlers : Start(h)
    \/ \E h \in Handlers : LockForLookup(h)
    \/ \E h \in Handlers : Lookup(h)
    \/ \E h \in Handlers : Fetch(h)
    \/ \E h \in Handlers : NormalizeBoard(h)
    \/ \E h \in Handlers : LockForStore(h)
    \/ \E h \in Handlers : StoreData(h)
    \/ \E h \in Handlers : StoreTimestamp(h)
    \/ \E h \in Handlers : Respond(h)
    \/ \E h \in Handlers : Sent(h)
    \/ Tick

Spec == Init /\ [][Next]_vars

InitNorm == CacheInit /\ InitNormCall /\ FilterIdle /\ SearchIdle /\ FlagIdle

SpecNorm == InitNorm /\ [][NormalizeCall]_vars

(***************************************************************************)
(* The track filter on its own: SpecFilter                                 *)
(***************************************************************************)
Chunks == {<<"1">>, <<"0">>, Space, Gleis}

\* The strings made of at most n chunks
RECURSIVE ChunkStrings(_)
ChunkStrings(n) ==
    IF n = 0 THEN {Empty}
    ELSE LET shorter == ChunkStrings(n - 1)
         IN  shorter \cup {s \o c : s \in shorter, c \in Chunks}

Platforms == ChunkStrings(MaxPlatformChunks)
Tracks == ChunkStrings(MaxTrackChunks)

InitFilterCall ==
    /\ filterCall \in [allDepartures : {JArr(<<JObj([platform |-> JStr(p)])>>) : p \in Platforms},
                       requestedTrack : {JStr(t) : t \in Tracks}]
    /\ filterResult = [state |-> "pending"]

\* Lines 634-656 run on the list
FilterCall ==
    /\ filterResult = [state |-> "pending"]
    /\ filterResult' = [state |-> "answered",
                        body |-> TrackFiltered(filterCall.allDepartures, filterCall.requestedTrack)]
    /\ UNCHANGED <<filterCall, cacheVars, normVars, searchVars, flagVars>>

InitFilter == CacheInit /\ NormIdle /\ InitFilterCall /\ SearchIdle /\ FlagIdle

SpecFilter == InitFilter /\ [][FilterCall]_vars

(***************************************************************************)
(* The search route (lines 577-596): SpecSearch                            *)
(***************************************************************************)
HTTP_BAD_REQUEST == 400

Candidate(id, quality, located) ==
    JObj(With([id |-> JStr(id), name |-> JStr(<<"A">>), matchQuality |-> JNum(quality)],
              "coord", IF located THEN JArr(<<JNum(49), JNum(8)>>) ELSE Absent))

Candidates ==
    {Candidate(id, q, c) : id \in {<<"7">>, <<"8">>}, q \in 0..MaxQuality, c \in BOOLEAN}

\* The documents the stop finder answers with: the candidates bare, under
\* "locations", or under "stopFinder"."points"
SearchDocuments ==
    LET lists == SeqsUpTo(Candidates, MaxCandidates)
    IN  {JArr(l) : l \in lists}
        \cup {JObj([locations |-> JArr(l)]) : l \in lists}
        \cup {JObj([stopFinder |-> JObj([points |-> JArr(l)])]) : l \in lists}

SearchReplies ==
    {[status_code |-> HTTP_OK, wellFormed |-> TRUE, json |-> d] : d \in SearchDocuments}
    \cup {[status_code |-> HTTP_OK, wellFormed |-> FALSE, json |-> JNull],
          [status_code |-> HTTP_UNAVAILABLE, wellFormed |-> FALSE, json |-> JNull]}

InitSearchCall ==
    /\ db_config \in BOOLEAN
    /\ stops_table \in {{}, {<<"7">>}}
    /\ searchCall \in [query : {NoParam, JStr(Empty), JStr(<<"a", "b">>)},
                       reply : SearchReplies,
                       connected : BOOLEAN]
    /\ searchResponse = [state |-> "pending"]

\* The handler of lines 578-596
Search ==
    /\ searchResponse = [state |-> "pending"]
    /\ IF searchCall.query = NoParam
       THEN /\ searchResponse' = [state |-> "answered", code |-> HTTP_BAD_REQUEST,
                                  body |-> JStr(MissingQMsg)]
            /\ UNCHANGED stops_table
       ELSE LET searchResult == searchStopsProvider(searchCall.query.s, searchCall.reply)
                hasError == searchResult.t = "object" /\ contains(searchResult, "error")
            IN  /\ stops_table' =
                       IF hasError THEN stops_table
                       ELSE ensureStopsInDatabase(searchResult, db_config,
                                                  searchCall.connected, stops_table)
                /\ searchResponse' = [state |-> "answered", code |-> HTTP_OK,
                                      body |-> searchResult]
    /\ UNCHANGED <<db_config, searchCall, cacheVars, normVars, filterVars, flagVars>>

InitSearch == CacheInit /\ NormIdle /\ FilterIdle /\ InitSearchCall /\ FlagIdle

SpecSearch == InitSearch /\ [][Search]_vars

(***************************************************************************)
(* The boolean query parameters of both routes (lines 583, 604-605, 610):  *)
(* SpecFlags                                                               *)
(***************************************************************************)
\* What a client may send for a boolean parameter: nothing, or a spelling
\* of true, 1, yes, or something else
FlagValues ==
    ParamValues \cup {JStr(<<"T", "r", "u", "e">>), JStr(<<"Y", "E", "S">>),
                      JStr(<<"n", "o">>), JStr(Empty)}

InitFlagCall ==
    /\ flagCall \in [stopId : StopIds, locationParam : FlagValues,
                     detailedParam : FlagValues, delayParam : FlagValues]
    /\ flagResult = [state |-> "pending"]

\* Line 583 of the search route; lines 604, 605 and 610 of the departures
\* route
ReadFlags ==
    /\ flagResult = [state |-> "pending"]
    /\ LET includeLocationRead == ParamIsTrue(flagCall.locationParam)
           detailedRead == ParamIsTrue(flagCall.detailedParam)
           includeDelayRead == ParamIsTrue(flagCall.delayParam)
       IN  flagResult' = [state |-> "read",
                          includeLocation |-> includeLocationRead,
                          detailed |-> detailedRead,
                          includeDelay |-> includeDelayRead,
                          cacheKey |-> CacheKeyOf(flagCall.stopId, detailedRead, includeDelayRead)]
    /\ UNCHANGED <<flagCall, cacheVars, normVars, filterVars, searchVars>>

InitFlags == CacheInit /\ NormIdle /\ FilterIdle /\ SearchIdle /\ InitFlagCall

SpecFlags == InitFlags /\ [][ReadFlags]_vars

(***************************************************************************)
(* Claims                                                                  *)
(***************************************************************************)
InCache == {"lookup", "store_data", "store_timestamp"}
Storing == {"lock_store", "store_data", "store_timestamp"}

\* The age in ticks of the entry a handler's key names
AgeTicks(h) == clock - stop_cache[cacheKey[h]].timestamp

C1_LookupStep(h) ==
    (pc[h] = "lookup" /\ pc'[h] # "lookup") =>
        /\ (cacheKey[h] \in DOMAIN stop_cache /\ AgeTicks(h) < CACHE_TTL_SECONDS * TicksPerSecond)
              => /\ cacheHit'[h]
                 /\ allDepartures'[h] = stop_cache[cacheKey[h]].data
                 /\ pc'[h] = "respond"
                 /\ fetches'[h] = 0
        /\ (cacheKey[h] \in DOMAIN stop_cache /\ AgeTicks(h) >= CACHE_TTL_SECONDS * TicksPerSecond)
              => /\ ~cacheHit'[h]
                 /\ pc'[h] = "fetch"
                 /\ stop_cache' = stop_cache
        /\ cacheKey[h] \notin DOMAIN stop_cache
              => /\ ~cacheHit'[h]
                 /\ pc'[h] = "fetch"

\* C1: a lookup of a key whose entry is less than 30 whole seconds old is a
\* hit that hands out the stored payload and leads to no upstream fetch; a
\* lookup of a key whose entry is 30 seconds old or older is a miss that
\* leads to the fetch and leaves the entry in the map; a lookup of a key that
\* is not in the map is a miss.  A request served from a hit never fetched.
C1_HitWithinTtlMissAfter ==
    /\ [][\A h \in Handlers : C1_LookupStep(h)]_vars
    /\ [](\A h \in Handlers : (pc[h] \in {"respond", "responded"} /\ cacheHit[h]) => fetches[h] = 0)

\* A hit on an entry that is half a second short of 30 seconds old
C1_Witness ==
    \E h \in Handlers :
        /\ pc[h] = "respond" /\ cacheHit[h]
        /\ cacheKey[h] \in DOMAIN stop_cache
        /\ AgeTicks(h) = CACHE_TTL_SECONDS * TicksPerSecond - 1
        /\ allDepartures[h] = stop_cache[cacheKey[h]].data

\* C2: at most one handler is inside a lookup or a store, the one inside
\* holds cache_mutex, and no handler holds it while its upstream fetch or
\* its normalization is in progress.
C2_CacheAccessSerialized ==
    /\ Cardinality({h \in Handlers : pc[h] \in InCache}) <= 1
    /\ \A h \in Handlers : pc[h] \in InCache => cache_mutex = h
    /\ \A h \in Handlers : pc[h] \in {"fetch", "normalize"} => cache_mutex # h

\* One handler waits for the provider while another is inside its lookup
C2_Witness ==
    \E g, h \in Handlers : pc[g] = "fetch" /\ pc[h] = "lookup" /\ cache_mutex = h

\* The last CacheEntry built for key k, as [data, timestamp]
LastWritten(k) ==
    LET i == CHOOSE j \in 1..Len(written) :
                 /\ written[j].key = k
                 /\ \A m \in (j + 1)..Len(written) : written[m].key # k
    IN  [data |-> written[i].data, timestamp |-> written[i].timestamp]

\* C3: every handler that missed stores the result of its own single fetch;
\* when no store for a key is under way its entry is the (payload,
\* timestamp) pair of the store that took the lock last; and the entry a
\* lookup finds is one store's complete pair.
C3_LastWriterWinsNoTornEntry ==
    /\ \A h \in Handlers :
          pc[h] \in Storing =>
              /\ fetches[h] = 1
              /\ ~cacheHit[h]
              /\ allDepartures[h] = normalizeResponse(rawData[h], detailed[h], includeDelay[h]).result
    /\ \A h \in Handlers :
          pc[h] = "store_timestamp" =>
              written[Len(written)] = [key |-> cacheKey[h], data |-> allDepartures[h],
                                       timestamp |-> entry[h].timestamp]
    /\ \A k \in DOMAIN stop_cache :
          (\A h \in Handlers : ~(pc[h] = "store_timestamp" /\ cacheKey[h] = k))
              => stop_cache[k] = LastWritten(k)
    /\ \A h \in Handlers :
          (pc[h] = "lookup" /\ cacheKey[h] \in DOMAIN stop_cache) =>
              \E i \in 1..Len(written) :
                  /\ written[i].key = cacheKey[h]
                  /\ written[i].data = stop_cache[cacheKey[h]].data
                  /\ written[i].timestamp = stop_cache[cacheKey[h]].timestamp

\* Two requests for one key missed together (the second looked the key up
\* before the first had stored), both stored, and the entry is the second
\* store's
C3_Witness ==
    /\ Len(written) = 2
    /\ written[1].key = written[2].key
    /\ written[1].data # written[2].data
    /\ written[1].timestamp = written[2].timestamp
    /\ \A h \in Handlers : pc[h] \in {"respond", "responded"} /\ ~cacheHit[h]
    /\ stop_cache[written[2].key].data = written[2].data

C4_Step(h) ==
    (pc[h] = "fetch" /\ pc'[h] # "fetch") =>
        /\ fetches'[h] = 1
        /\ contains(rawData'[h], "error") =>
              /\ pc'[h] = "responded"
              /\ response'[h].code = HTTP_BAD_GATEWAY
              /\ contains(response'[h].body, "error")
              /\ stop_cache' = stop_cache

\* Some handler is storing, for key k, the normalized result of its fetch,
\* which brought no error
C4_StoredBySuccessfulFetch(k) ==
    \E h \in Handlers :
        /\ pc[h] \in {"store_data", "store_timestamp"}
        /\ cacheKey[h] = k
        /\ fetches[h] = 1
        /\ ~contains(rawData[h], "error")
        /\ stop_cache'[k].data = normalizeResponse(rawData[h], detailed[h], includeDelay[h]).result

\* C4: a request whose fetch brings an error object (non-200 status, or a
\* body that is no JSON) ends with 502 and that object after exactly one
\* fetch, and leaves stop_cache as it was; an entry of stop_cache changes only
\* in the store of a request whose fetch brought no error, for that key.
C4_FetchErrorLeavesCache ==
    /\ [][\A h \in Handlers : C4_Step(h)]_vars
    /\ [][\A k \in DOMAIN stop_cache' :
             (k \notin DOMAIN stop_cache \/ stop_cache'[k] # stop_cache[k])
                 => C4_StoredBySuccessfulFetch(k)]_vars
    /\ [](\A h \in Handlers : fetches[h] <= 1)

\* A request got 502 while the expired entry of its key is still in place
C4_Witness ==
    \E h \in Handlers :
        /\ pc[h] = "responded"
        /\ response[h].code = HTTP_BAD_GATEWAY
        /\ fetches[h] = 1
        /\ cacheKey[h] \in DOMAIN stop_cache
        /\ AgeTicks(h) >= CACHE_TTL_SECONDS * TicksPerSecond
        /\ stop_cache[cacheKey[h]] = LastWritten(cacheKey[h])

Flags == BOOLEAN \X BOOLEAN

\* The payloads normalizeResponse gives for the stop's boards under flags f
PayloadsFor(id, f) ==
    {normalizeResponse(b, f[1], f[2]).result :
        b \in {c \in DepartureBoards(id) : normalizeResponse(c, f[1], f[2]).ok}}

\* C5: the four flag combinations of a stop give four different keys, and
\* the payload a hit hands out was not normalized for that stop under flags
\* other than the request's.
C5_FlagsSeparateEntries ==
    \A h \in Handlers :
        pc[h] \in {"respond", "responded"} /\ cacheHit[h] =>
            /\ Cardinality({CacheKeyOf(stopId[h], f[1], f[2]) : f \in Flags}) = 4
            /\ \A f \in Flags \ {<<detailed[h], includeDelay[h]>>} :
                   allDepartures[h] \notin PayloadsFor(stopId[h], f)

\* A request misses although a fresh entry for the same stop under other
\* flags is in the map
C5_Witness ==
    \E h \in Handlers :
        /\ pc[h] = "fetch"
        /\ cacheKey[h] \notin DOMAIN stop_cache
        /\ \E f \in Flags \ {<<detailed[h], includeDelay[h]>>} :
              LET k == CacheKeyOf(stopId[h], f[1], f[2])
              IN  /\ k \in DOMAIN stop_cache
                  /\ Fresh(stop_cache[k], clock)
                  /\ stop_cache[k].data \in PayloadsFor(stopId[h], f)

\* The platform and the token of the filter call, and whether the record
\* was kept
FilterPlatform == filterCall.allDepartures.a[1].o["platform"].s
FilterToken == filterCall.requestedTrack.s
FilterKept == Len(filterResult.body.a) = 1

StartsWith(s, prefix) == Len(s) >= Len(prefix) /\ SubSeq(s, 1, Len(prefix)) = prefix

\* The three tiers as the specification words them
Tier1(p, t) == p = t
Tier2(p, t) == StartsWith(p, t) /\ (Len(p) > Len(t) => ~isdigit(p[Len(t) + 1]))
Tier3(p, t) ==
    \E i \in 1..Len(p) :
        \/ StartsWith(SubSeq(p, i, Len(p)), Space \o t)
        \/ StartsWith(SubSeq(p, i, Len(p)), Gleis \o t)

\* C6: the filter keeps a record if and only if one of the three tiers
\* succeeds; in particular a record is kept when tier 2 fails and tier 3
\* succeeds.
C6_KeptIffAnyTier ==
    filterResult.state = "answered" =>
        (FilterKept <=> (\/ Tier1(FilterPlatform, FilterToken)
                         \/ Tier2(FilterPlatform, FilterToken)
                         \/ Tier3(FilterPlatform, FilterToken)))

\* C7: a platform equal to the token is kept; the token followed by a
\* character that is no digit, and anything after it, is kept; "Gleis "
\* followed by the token is kept; the token followed by digits only is
\* dropped.
C7_TrackExamples ==
    filterResult.state = "answered" =>
        LET p == FilterPlatform
            t == FilterToken
        IN  /\ p = t => FilterKept
            /\ (StartsWith(p, t) /\ Len(p) > Len(t) /\ ~isdigit(p[Len(t) + 1])) => FilterKept
            /\ p = Gleis \o t => FilterKept
            /\ (StartsWith(p, t) /\ Len(p) > Len(t)
                /\ \A i \in (Len(t) + 1)..Len(p) : isdigit(p[i])) => ~FilterKept

\* Platform "10" is dropped for track "1"
C7_Witness ==
    /\ filterResult.state = "answered"
    /\ FilterToken = <<"1">>
    /\ FilterPlatform = <<"1", "0">>
    /\ ~FilterKept

\* The entries normalizeResponse was given
NormEntries == Elements(normCall.ProviderData.o["departureList"])

\* C8: normalizeResponse gives one record per entry of the departure list,
\* in the order of the list, each with line, direction and mot; for an
\* entry without servingLine these are "?", "Unknown" and -1.
C8_OneRecordPerEntryWithSentinels ==
    (normResult.state = "returned" /\ contains(normCall.ProviderData, "departureList")) =>
        /\ Len(normResult.result.a) = Len(NormEntries)
        /\ \A i \in 1..Len(NormEntries) :
              LET item == normResult.result.a[i]
              IN  /\ item.o["is_realtime"].b = contains(NormEntries[i], "realDateTime")
                  /\ {"line", "direction", "mot"} \subseteq DOMAIN item.o
                  /\ ~contains(NormEntries[i], "servingLine") =>
                        /\ item.o["line"] = JStr(QuestionMark)
                        /\ item.o["direction"] = JStr(Unknown)
                        /\ item.o["mot"] = JNum(-1)

\* Whether a loosely typed member converts to an integer
Parses(obj, key) == contains(obj, key) /\ obj.o[key].t = "string" /\ stoi(obj.o[key].s).ok

\* C9: whatever the type and content of countdown, servingLine.motType and
\* servingLine.delay, normalizeResponse returns, and a member that does not
\* convert shows as its fallback: minutes_remaining 0, mot -1, delay_minutes 0.
C9_ParseFailuresFallBack ==
    normResult.state # "pending" =>
        /\ normResult.state = "returned"
        /\ contains(normCall.ProviderData, "departureList") =>
              \A i \in 1..Len(NormEntries) :
                  LET dep == NormEntries[i]
                      item == normResult.result.a[i]
                  IN  /\ (contains(dep, "countdown") /\ ~Parses(dep, "countdown"))
                            => item.o["minutes_remaining"] = JNum(0)
                      /\ (contains(dep, "servingLine")
                          /\ contains(dep.o["servingLine"], "motType")
                          /\ ~Parses(dep.o["servingLine"], "motType"))
                            => item.o["mot"] = JNum(-1)
                      /\ (normCall.includeDelay /\ contains(dep, "servingLine")
                          /\ contains(dep.o["servingLine"], "delay")
                          /\ ~Parses(dep.o["servingLine"], "delay"))
                            => item.o["delay_minutes"] = JNum(0)

\* matchQuality of the i-th candidate of a list
Quality(list, i) == list[i].o["matchQuality"].n

\* The candidates of list with matchQuality q, in their order
RECURSIVE WithQuality(_, _)
WithQuality(list, q) ==
    IF list = <<>> THEN <<>>
    ELSE IF Head(list).o["matchQuality"].n = q
    THEN <<Head(list)>> \o WithQuality(Tail(list), q)
    ELSE WithQuality(Tail(list), q)

\* C10: for a non-empty query that upstream answers, the candidates of the
\* response are in non-increasing order of matchQuality, and candidates of
\* equal matchQuality are in the order upstream gave them.
C10_SearchSortedStable ==
    (/\ searchResponse.state = "answered"
     /\ searchCall.query # NoParam
     /\ searchCall.query.s # Empty
     /\ searchCall.reply.status_code = HTTP_OK
     /\ searchCall.reply.wellFormed) =>
        LET given == StopArray(searchCall.reply.json).list
            out == StopArray(searchResponse.body).list
        IN  /\ \A i, j \in 1..Len(out) : i < j => Quality(out, i) >= Quality(out, j)
            /\ \A q \in 0..MaxQuality : WithQuality(out, q) = WithQuality(given, q)
\* The reading the specification gives a boolean parameter: true exactly for
\* "true", "1" and "yes" in any case
StrYes == <<"y", "e", "s">>
ReadsTrue(param) == param # NoParam /\ toLower(param.s) \in {StrTrue, StrOne, StrYes}

\* C11: location, detailed and delay are read as true exactly when the
\* value is "true", "1" or "yes" in any case, and as false otherwise and
\* when absent; the cache key of a departures request follows that reading.
C11_FlagsCaseInsensitiveTrueOneYes ==
    flagResult.state = "read" =>
        /\ flagResult.includeLocation = ReadsTrue(flagCall.locationParam)
        /\ flagResult.detailed = ReadsTrue(flagCall.detailedParam)
        /\ flagResult.includeDelay = ReadsTrue(flagCall.delayParam)
        /\ flagResult.cacheKey = CacheKeyOf(flagCall.stopId, ReadsTrue(flagCall.detailedParam),
                                            ReadsTrue(flagCall.delayParam))

\* C12: a hit hands out only a payload fetched for the stop of the request
\* and normalized with its flags, also when stop identifiers end in
\* "_detailed" or "_delay" (the cache key tells any two requests that differ
\* in stop or flags apart).
C12_HitPayloadOfSameRequest ==
    \A h \in Handlers :
        (pc[h] \in {"respond", "responded"} /\ cacheHit[h]) =>
            allDepartures[h] \in PayloadsFor(stopId[h], <<detailed[h], includeDelay[h]>>)

\* The steps of handler h that C13 speaks of
C13_Step(h) ==
    /\ (pc[h] = "store_data" /\ pc'[h] # "store_data") =>
           stop_cache'[cacheKey[h]].data =
               normalizeResponse(rawData[h], detailed[h], includeDelay[h]).result
    /\ (pc[h] \in {"lookup", "respond", "responded"} /\ pc'[h] # pc[h]) =>
           stop_cache' = stop_cache

\* The response of h is the track filter, for some track a client may send,
\* applied to a full list that was stored under h's key
C13_Answered(h) ==
    \E i \in 1..Len(written) :
        /\ written[i].key = cacheKey[h]
        /\ written[i].data = allDepartures[h]
        /\ \E requestedTrack \in TrackParams :
               response[h].body = TrackFiltered(written[i].data, requestedTrack)

\* C13: the entry stored on a miss is the complete normalized list; the
\* lookup, the track filter and the answer leave stop_cache as it is, so a
\* request served from a hit never changes it; every response is the track
\* filter applied to the full list held for the key.
C13_TrackNeverReachesCache ==
    /\ [][\A h \in Handlers : C13_Step(h)]_vars
    /\ [](\A h \in Handlers :
             (pc[h] = "responded" /\ response[h].code = HTTP_OK) => C13_Answered(h))

\* A hit was answered with a filtered list that is shorter than the entry,
\* and the entry is still the full list
C13_Witness ==
    \E h \in Handlers :
        /\ pc[h] = "responded"
        /\ cacheHit[h]
        /\ response[h].code = HTTP_OK
        /\ Len(response[h].body.a) < Len(allDepartures[h].a)
        /\ stop_cache[cacheKey[h]].data = allDepartures[h]
        /\ Len(stop_cache[cacheKey[h]].data.a) = 2
====
